---- MODULE Spec2Model ----
(***************************************************************************)
(* TipEase dashboard script (src/app.py): the data pipeline of one run.    *)
(* A run picks its CSV source, renames the headers, coerces the day and    *)
(* tip columns, derives a timestamp per row, computes the KPI numbers, the *)
(* four grouped/sorted views, the heatmap points and the insight facts.    *)
(* The script is straight-line code: pc is the statement block the run is  *)
(* about to execute; an uncaught exception ends the run (pc = "error"),    *)
(* st.stop() ends it too (pc = "stopped").                                 *)
(*                                                                         *)
(* The headers go through encode/decode as their sequences of Unicode code *)
(* points.  Amounts are integers (currency units); a float column that may *)
(* hold NaN carries cells [nan, val].  A timestamp is the number of hours  *)
(* after base_date.                                                        *)
(***************************************************************************)
EXTENDS Integers, Sequences, FiniteSets, TLC

\* ------------------------------------------------------------------------
\* Bounds of the model
\* ------------------------------------------------------------------------
\* longest input of freely chosen rows
MaxRows == 2
\* day cells of the freely chosen rows are 1..MaxDay
MaxDay == 2
\* patterned inputs have RecentLimit-Extra .. RecentLimit+Extra rows
Extra == 2

\* ------------------------------------------------------------------------
\* Program constants
\* ------------------------------------------------------------------------
\* .head(15) of the recent log
RecentLimit == 15
\* .head(5) of the top tippers
TopLimit == 5
\* .fillna(12) of the hour bucket
DefaultHour == 12
\* marker character "Ã" (U+00C3) looked for in a header
MojibakeMarker == 195

\* ------------------------------------------------------------------------
\* Generic helpers
\* ------------------------------------------------------------------------
Min(a, b) == IF a < b THEN a ELSE b

Range(s) == {s[i] : i \in DOMAIN s}

Reverse(s) == [i \in 1..Len(s) |-> s[Len(s) + 1 - i]]

Head_(s, n) == SubSeq(s, 1, Min(n, Len(s)))

RECURSIVE SumSeq(_)
SumSeq(s) == IF s = <<>> THEN 0 ELSE Head(s) + SumSeq(Tail(s))

RECURSIVE Concat(_)
Concat(ss) == IF ss = <<>> THEN <<>> ELSE Head(ss) \o Concat(Tail(ss))

\* ------------------------------------------------------------------------
\* Text: the headers and their code points
\* ------------------------------------------------------------------------
\* the keys of col_map
H_day == "Day / Día"
H_guest == "Guest ID / Huésped"
H_tip == "Tip (USD) / Propina (USD)"
H_dept == "Department / Departamento"
H_tod == "Time of Day / Hora del Día"
\* the values of col_map
N_day == "day"
N_guest == "guest"
N_tip == "tip"
N_dept == "dept"
N_tod == "tod"
\* the accented headers as they read after their UTF-8 bytes were decoded as
\* Latin-1 (the byte AD of "í" reads as U+00AD, a soft hyphen)
M_day == "Day / DÃ­a"
M_guest == "Guest ID / HuÃ©sped"
M_tod == "Time of Day / Hora del DÃ­a"
\* a header the script does not know
H_other == "notes"

\* the code points of the header strings
CodePoints ==
  <<<<H_day, <<68, 97, 121, 32, 47, 32, 68, 237, 97>>>>,
    <<H_guest, <<71, 117, 101, 115, 116, 32, 73, 68, 32, 47, 32, 72, 117, 233, 115, 112, 101, 100>>>>,
    <<H_tip, <<84, 105, 112, 32, 40, 85, 83, 68, 41, 32, 47, 32, 80, 114, 111, 112, 105, 110, 97, 32, 40, 85, 83, 68, 41>>>>,
    <<H_dept, <<68, 101, 112, 97, 114, 116, 109, 101, 110, 116, 32, 47, 32, 68, 101, 112, 97, 114, 116, 97, 109, 101, 110, 116, 111>>>>,
    <<H_tod, <<84, 105, 109, 101, 32, 111, 102, 32, 68, 97, 121, 32, 47, 32, 72, 111, 114, 97, 32, 100, 101, 108, 32, 68, 237, 97>>>>,
    <<N_day, <<100, 97, 121>>>>,
    <<N_guest, <<103, 117, 101, 115, 116>>>>,
    <<N_tip, <<116, 105, 112>>>>,
    <<N_dept, <<100, 101, 112, 116>>>>,
    <<N_tod, <<116, 111, 100>>>>,
    <<M_day, <<68, 97, 121, 32, 47, 32, 68, 195, 173, 97>>>>,
    <<M_guest, <<71, 117, 101, 115, 116, 32, 73, 68, 32, 47, 32, 72, 117, 195, 169, 115, 112, 101, 100>>>>,
    <<M_tod, <<84, 105, 109, 101, 32, 111, 102, 32, 68, 97, 121, 32, 47, 32, 72, 111, 114, 97, 32, 100, 101, 108, 32, 68, 195, 173, 97>>>>,
    <<H_other, <<110, 111, 116, 101, 115>>>>>>

\* the characters of a string, as code points
Chars(s) == (CHOOSE p \in Range(CodePoints) : p[1] = s)[2]

\* the string of a code-point sequence
Str(cps) == (CHOOSE p \in Range(CodePoints) : p[2] = cps)[1]

\* the five data columns of a file, by what they hold
Fields == {"day", "guest", "tip", "dept", "tod"}

Bilingual == [day |-> H_day, guest |-> H_guest, tip |-> H_tip, dept |-> H_dept, tod |-> H_tod]

Canonical == [day |-> N_day, guest |-> N_guest, tip |-> N_tip, dept |-> N_dept, tod |-> N_tod]

\* the col_map dictionary of load_df
col_map == [h \in {H_day, H_guest, H_tip, H_dept, H_tod} |->
              IF h = H_day THEN N_day
              ELSE IF h = H_guest THEN N_guest
              ELSE IF h = H_tip THEN N_tip
              ELSE IF h = H_dept THEN N_dept
              ELSE N_tod]

\* str.encode("utf-8") for code points below U+0800
EncodeUtf8(s) ==
  Concat([i \in 1..Len(s) |->
            IF s[i] < 128 THEN <<s[i]>>
            ELSE <<192 + (s[i] \div 64), 128 + (s[i] % 64)>>])

\* str.encode("latin1", "ignore"): a code point above U+00FF has no byte and
\* is dropped, every other code point n is the byte n
EncodeLatin1Ignore(s) == SelectSeq(s, LAMBDA cp : cp <= 255)

\* bytes.decode("latin1"): the byte n is the code point n
DecodeLatin1(b) == [i \in 1..Len(b) |-> b[i]]

\* a header whose UTF-8 bytes were read as Latin-1 ("Día" -> "DÃ­a")
Mojibake(s) == Str(DecodeLatin1(EncodeUtf8(Chars(s))))

\* the key computed for a header c in the loop of load_df
RepairKey(c) ==
  IF MojibakeMarker \in Range(Chars(c))
  THEN Str(DecodeLatin1(EncodeLatin1Ignore(Chars(c))))
  ELSE c

\* the loop of load_df followed by the direct rename, for one header
RenameHeader(c) ==
  LET key == RepairKey(c)
      c1 == IF key \in DOMAIN col_map /\ c # col_map[key] THEN col_map[key] ELSE c
  IN IF c1 \in DOMAIN col_map THEN col_map[c1] ELSE c1


\* ------------------------------------------------------------------------
\* Cells, rows and frames
\* ------------------------------------------------------------------------
\* a CSV cell of a numeric column: a number, a text that is no number, nothing
Num(v) == [k |-> "num", v |-> v]
Text == [k |-> "text", v |-> 0]
Empty == [k |-> "empty", v |-> 0]

\* a cell of a float column
NaN == [nan |-> TRUE, val |-> 0]
Val(v) == [nan |-> FALSE, val |-> v]

\* pd.notna of a float cell
notna(x) == ~x.nan

\* a missing text cell (read_csv reads an empty field as NaN)
NA == ""
IsNA(s) == s = NA

\* Python's None for top_dept
None == "<None>"

\* pd.to_numeric(column, errors="coerce")
to_numeric(col) ==
  [i \in 1..Len(col) |-> IF col[i].k = "num" THEN Val(col[i].v) ELSE NaN]

\* Series.fillna(v)
fillna(col, v) == [i \in 1..Len(col) |-> IF col[i].nan THEN Val(v) ELSE col[i]]

\* whether Series.astype(int) raises: a NaN cannot be cast to an integer
astype_int_raises(col) == \E i \in 1..Len(col) : col[i].nan

\* whether the frame has a column called name
HasColumn(frame, name) == \E f \in Fields : frame.columns[f] = name

\* the column called name
ColumnOf(frame, name) == CHOOSE f \in Fields : frame.columns[f] = name

\* frame[name]
Column(frame, name) ==
  [i \in 1..Len(frame.rows) |-> frame.rows[i][ColumnOf(frame, name)]]

\* frame[name] = col
SetColumn(frame, name, col) ==
  [frame EXCEPT !.rows =
     [i \in 1..Len(frame.rows) |->
        [frame.rows[i] EXCEPT ![ColumnOf(frame, name)] = col[i]]]]

\* load_df: read the file, rename its headers
load_df(file) ==
  [columns |-> [f \in Fields |-> RenameHeader(file.header[f])],
   rows |-> file.rows]

\* line 67, right-hand side up to the cast
CoerceDay(col) == to_numeric(col)

\* a coercion that also turns a negative amount into 0
CoerceTip_Clip(col) ==
  [i \in 1..Len(col) |->
     IF col[i].k = "num" /\ col[i].v >= 0 THEN Val(col[i].v) ELSE Val(0)]

\* line 68, right-hand side
CoerceTip(col) == fillna(to_numeric(col), 0)

\* the bucket_map dictionary
bucket_map == [t \in {"Morning", "Afternoon", "Evening", "Mañana", "Tarde", "Noche"} |->
                 IF t \in {"Morning", "Mañana"} THEN 10
                 ELSE IF t \in {"Afternoon", "Tarde"} THEN 14
                 ELSE 19]

\* line 74: df["tod"].map(bucket_map).fillna(12).astype(int)
HourOf(col) ==
  [i \in 1..Len(col) |->
     IF col[i] \in DOMAIN bucket_map THEN bucket_map[col[i]] ELSE DefaultHour]

\* line 77
days_list(col) == [i \in 1..Len(col) |-> IF notna(col[i]) THEN col[i].val ELSE 0]

\* lines 82-85, in hours after base_date
Timestamps(days, hours) == [i \in 1..Len(days) |-> 24 * days[i] + hours[i]]

\* the rows of a frame whose five columns are all present, with the row label
Records(frame) ==
  [i \in 1..Len(frame.rows) |->
     [idx |-> i,
      day |-> Column(frame, N_day)[i].val,
      guest |-> Column(frame, N_guest)[i],
      tip |-> Column(frame, N_tip)[i].val,
      dept |-> Column(frame, N_dept)[i],
      tod |-> Column(frame, N_tod)[i],
      timestamp |-> frame.rows[i].timestamp]]

\* ------------------------------------------------------------------------
\* groupby(...)["tip"].sum() and sort_values
\* ------------------------------------------------------------------------
\* the names of the model's inputs in str order (groupby sorts its keys)
SortedNames == <<"Dining", "G1", "G2", "G3", "G4", "G5", "G6", "Spa">>

NameRank == [s \in Range(SortedNames) |-> CHOOSE i \in DOMAIN SortedNames : SortedNames[i] = s]

\* the members of a set of keys in ascending rank
RECURSIVE SortedKeys(_, _)
SortedKeys(S, rank) ==
  IF S = {} THEN <<>>
  ELSE LET m == CHOOSE k \in S : \A o \in S : rank[k] <= rank[o]
       IN <<m>> \o SortedKeys(S \ {m}, rank)

\* a group total that keeps the group's last amount instead of adding
GroupTotal_Last(items, key) ==
  LET own == SelectSeq(items, LAMBDA it : ~it.na /\ it.key = key)
  IN own[Len(own)].tip

\* the sum of tip over the items of one key
GroupTotal(items, key) ==
  SumSeq([i \in 1..Len(items) |->
            IF ~items[i].na /\ items[i].key = key THEN items[i].tip ELSE 0])

\* groupby(key)["tip"].sum().reset_index(): items are [key, na, tip]; a row
\* whose key is missing belongs to no group (dropna=True), the groups come in
\* ascending key order (sort=True)
GroupBySum(items, rank) ==
  LET keys == SortedKeys({items[i].key : i \in {j \in 1..Len(items) : ~items[j].na}}, rank)
  IN [g \in 1..Len(keys) |-> [key |-> keys[g], tip |-> GroupTotal(items, keys[g])]]

\* insertion of index x into the ascending index list; equal values keep their
\* order when tie = "stable" and swap it otherwise
RECURSIVE InsertSorted(_, _, _, _)
InsertSorted(sorted, x, vals, tie) ==
  IF sorted = <<>> THEN <<x>>
  ELSE IF vals[Head(sorted)] < vals[x] \/ (vals[Head(sorted)] = vals[x] /\ tie = "stable")
       THEN <<Head(sorted)>> \o InsertSorted(Tail(sorted), x, vals, tie)
       ELSE <<x>> \o sorted

\* numpy argsort of the first n values
RECURSIVE Argsort(_, _, _)
Argsort(vals, n, tie) ==
  IF n = 0 THEN <<>> ELSE InsertSorted(Argsort(vals, n - 1, tie), n, vals, tie)

\* the orders kind="quicksort" may leave equal values in
Ties == {"stable", "unstable"}

\* pandas nargsort: the row order sort_values applies; a descending sort
\* reverses the values, sorts ascending and reverses the result
nargsort(vals, ascending, tie) ==
  LET n == Len(vals)
  IN IF ascending THEN Argsort(vals, n, tie)
     ELSE LET rev == Reverse(vals)
              ix == Argsort(rev, n, tie)
          IN Reverse([j \in 1..n |-> n + 1 - ix[j]])

\* frame.iloc[indexer]
Take(frame, indexer) == [j \in 1..Len(indexer) |-> frame[indexer[j]]]

Tips(frame) == [i \in 1..Len(frame) |-> frame[i].tip]

\* ------------------------------------------------------------------------
\* The views
\* ------------------------------------------------------------------------
\* the (key, tip) pairs groupby(name)["tip"] works on, for a text column
TextItems(frame, name) ==
  [i \in 1..Len(frame.rows) |->
     [key |-> Column(frame, name)[i],
      na |-> IsNA(Column(frame, name)[i]),
      tip |-> Column(frame, N_tip)[i].val]]

\* the same for the day column
DayItems(frame) ==
  [i \in 1..Len(frame.rows) |->
     [key |-> Column(frame, N_day)[i].val,
      na |-> Column(frame, N_day)[i].nan,
      tip |-> Column(frame, N_tip)[i].val]]

\* groupby("dept")["tip"].sum().reset_index()
DeptGroups(frame) ==
  LET g == GroupBySum(TextItems(frame, N_dept), NameRank)
  IN [i \in 1..Len(g) |-> [dept |-> g[i].key, tip |-> g[i].tip]]

\* a department view sorted the wrong way round
DepSum_Ascending(frame, tie) ==
  Take(DeptGroups(frame), nargsort(Tips(DeptGroups(frame)), TRUE, tie))

\* line 105: df.groupby("dept")["tip"].sum().reset_index().sort_values("tip", ascending=False)
DepSum(frame, tie) ==
  Take(DeptGroups(frame), nargsort(Tips(DeptGroups(frame)), FALSE, tie))

\* a daily view with an entry for every day from the first to the last
Daily_FullRange(frame) ==
  LET items == DayItems(frame)
      days == {items[i].key : i \in 1..Len(items)}
      lo == CHOOSE d \in days : \A o \in days : d <= o
      hi == CHOOSE d \in days : \A o \in days : d >= o
  IN IF days = {} THEN <<>>
     ELSE [j \in 1..(hi - lo + 1) |->
             [day |-> lo + j - 1,
              tip |-> SumSeq([i \in 1..Len(items) |->
                                IF items[i].key = lo + j - 1 THEN items[i].tip ELSE 0])]]

\* line 115: df.groupby("day")["tip"].sum().reset_index()
Daily(frame) ==
  LET items == DayItems(frame)
      g == GroupBySum(items, [d \in {items[i].key : i \in 1..Len(items)} |-> d])
  IN [i \in 1..Len(g) |-> [day |-> g[i].key, tip |-> g[i].tip]]

\* line 132: ...groupby("guest")["tip"].sum().reset_index().sort_values("tip", ascending=False).head(5)
TopGuests(frame, tie) ==
  LET g == GroupBySum(TextItems(frame, N_guest), NameRank)
      f == [i \in 1..Len(g) |-> [guest |-> g[i].key, tip |-> g[i].tip]]
  IN Head_(Take(f, nargsort(Tips(f), FALSE, tie)), TopLimit)

\* the rows of the recent log's five columns, with the row label
LogRows(frame) ==
  [i \in 1..Len(frame.rows) |->
     [idx |-> i,
      timestamp |-> frame.rows[i].timestamp,
      guest |-> Column(frame, N_guest)[i],
      dept |-> Column(frame, N_dept)[i],
      tod |-> Column(frame, N_tod)[i],
      tip |-> Column(frame, N_tip)[i].val]]

\* a recent log that sorts oldest first
Recent_Ascending(frame, tie) ==
  LET rows == LogRows(frame)
  IN Head_(Take(rows, nargsort([i \in 1..Len(rows) |-> rows[i].timestamp], TRUE, tie)),
           RecentLimit)

\* line 140: df.sort_values("timestamp", ascending=False)[[...]].head(15)
Recent(frame, tie) ==
  LET rows == LogRows(frame)
  IN Head_(Take(rows, nargsort([i \in 1..Len(rows) |-> rows[i].timestamp], FALSE, tie)),
           RecentLimit)

\* the anchor dictionary's keys
anchor == {"Dining", "Valet", "Spa", "Housekeeping", "Pool", "Beachfront", "Concierge", "Room Service"}

\* the synonyms dictionary
synonyms == [d \in {"Comedor", "Valet", "Spa", "Limpieza", "Piscina", "Playa", "Conserjería", "Servicio a la Habitación"} |->
               IF d = "Comedor" THEN "Dining"
               ELSE IF d = "Limpieza" THEN "Housekeeping"
               ELSE IF d = "Piscina" THEN "Pool"
               ELSE IF d = "Playa" THEN "Beachfront"
               ELSE IF d = "Conserjería" THEN "Concierge"
               ELSE IF d = "Servicio a la Habitación" THEN "Room Service"
               ELSE d]

\* lines 197-202: the departments of dep_sum that have an anchor
DepPoints(deps) ==
  SelectSeq(deps, LAMBDA r :
    (IF r.dept \in DOMAIN synonyms THEN synonyms[r.dept] ELSE r.dept) \in anchor)

\* Series.idxmax(): the first position of the largest value
idxmax(vals) ==
  CHOOSE i \in 1..Len(vals) :
    /\ \A j \in 1..Len(vals) : vals[j] <= vals[i]
    /\ \A j \in 1..(i - 1) : vals[j] < vals[i]

\* Series.mean(): the sum over the count as a fraction, NaN for no values
mean(vals) ==
  IF Len(vals) = 0 THEN [nan |-> TRUE, num |-> 0, den |-> 1]
  ELSE [nan |-> FALSE, num |-> SumSeq(vals), den |-> Len(vals)]

\* ------------------------------------------------------------------------
\* Inputs
\* ------------------------------------------------------------------------
Row(d, g, t, p, h) == [day |-> d, guest |-> g, tip |-> t, dept |-> p, tod |-> h]

BaseRow == Row(Num(1), "G1", Num(1), "Spa", "Evening")

\* the rows of the freely chosen inputs: each varies two or three cells of
\* BaseRow
RowDomain ==
  {Row(d, "G1", t, "Spa", "Evening") :
     d \in {Num(x) : x \in 1..MaxDay} \cup {Text, Empty}, t \in {Num(1), Num(-1), Empty}}
  \cup {Row(Num(1), "G1", t, p, "Evening") :
          t \in {Num(1), Num(-1), Text}, p \in {"Spa", "Dining", NA}}
  \cup {Row(Num(1), "G2", Num(1), p, "Evening") : p \in {"Spa", "Dining"}}
  \cup {Row(Num(d), "G1", Num(1), "Spa", h) :
          d \in {1, MaxDay}, h \in {"Morning", "Brunch", NA}}

RECURSIVE SeqsUpTo(_, _)
SeqsUpTo(S, n) ==
  IF n = 0 THEN {<<>>}
  ELSE LET shorter == SeqsUpTo(S, n - 1)
       IN shorter \cup {Append(q, x) : q \in {r \in shorter : Len(r) = n - 1}, x \in S}

\* a patterned input of n rows: the days cycle through m values stride apart,
\* forwards or backwards; the other cells cycle too
LongRows(n, m, stride, back) ==
  [i \in 1..n |->
     Row(Num(1 + stride * (IF back THEN (m - 1) - (i % m) ELSE i % m)),
         SortedNames[2 + (i % 6)],
         Num(1 + (i % 2)),
         <<"Spa", "Dining", NA>>[1 + (i % 3)],
         <<"Morning", "Evening", "Brunch", "Tarde">>[1 + (i % 4)])]

\* the header rows: bilingual, canonical, mojibake throughout, one header
\* mojibake, one column missing (an unknown column in its place)
Headers ==
  {Bilingual, Canonical, [f \in Fields |-> Mojibake(Bilingual[f])]}
  \cup {[Bilingual EXCEPT ![f] = Mojibake(Bilingual[f])] : f \in Fields}
  \cup {[Bilingual EXCEPT ![f] = H_other] : f \in Fields}
  \cup {[Canonical EXCEPT ![f] = H_other] : f \in Fields}

File(h, r) == [exists |-> TRUE, header |-> h, rows |-> r]

\* no upload (csv_file is None), no file on disk
NoFile == [exists |-> FALSE, header |-> [f \in Fields |-> ""], rows |-> <<>>]

Files ==
  {File(Bilingual, r) : r \in SeqsUpTo(RowDomain, MaxRows)}
  \cup {File(h, r) : h \in Headers, r \in {<<>>, <<BaseRow>>, <<BaseRow, Row(Num(MaxDay), "G2", Num(-1), "Dining", "Morning")>>}}
  \cup {File(Canonical, LongRows(n, m, stride, back)) :
          n \in (RecentLimit - Extra)..(RecentLimit + Extra),
          m \in 1..3, stride \in 1..2, back \in BOOLEAN}

\* the files tried as the fallback on disk
DiskFiles == {File(h, <<BaseRow>>) : h \in {Bilingual, Canonical}}

\* ------------------------------------------------------------------------
\* State
\* ------------------------------------------------------------------------
VARIABLES
  pc,               \* the block the run executes next, "done", "stopped", "error"
  csv_file,         \* the uploaded file, NoFile for None
  disk,             \* the file at default_csv, NoFile when there is none
  df,               \* the data frame: [columns, rows]
  kpi,              \* the three KPI cards
  dep_sum,          \* Tips by Department
  daily,            \* Daily Tip Activity
  top_guests,       \* Top Tippers
  recent,           \* Recent Tip Log
  dep_points,       \* heatmap points
  most_active_day,
  avg_tip,
  top_dept,
  warning,          \* st.warning was shown
  error,            \* the uncaught exception, if any
  defined           \* the script's names that are bound

vars == <<pc, csv_file, disk, df, kpi, dep_sum, daily, top_guests, recent, dep_points,
          most_active_day, avg_tip, top_dept, warning, error, defined>>

views == <<kpi, dep_sum, daily, top_guests, recent, dep_points, most_active_day, avg_tip, top_dept>>

NoError == [type |-> "", line |-> 0]

NoFrame == [columns |-> [f \in Fields |-> ""], rows |-> <<>>]

Init ==
  /\ pc = "source"
  /\ \/ csv_file \in Files /\ disk = NoFile
     \/ csv_file = NoFile /\ disk \in DiskFiles \cup {NoFile}
     \/ csv_file \in DiskFiles /\ disk \in DiskFiles
  /\ df = NoFrame
  /\ kpi = [total |-> 0, guests |-> 0, depts |-> 0]
  /\ dep_sum = <<>>
  /\ daily = <<>>
  /\ top_guests = <<>>
  /\ recent = <<>>
  /\ dep_points = <<>>
  /\ most_active_day = 0
  /\ avg_tip = mean(<<>>)
  /\ top_dept = None
  /\ warning = FALSE
  /\ error = NoError
  /\ defined = {}

\* an uncaught exception of the given type at the given line ends the run
Raise(type, line) ==
  /\ pc' = "error"
  /\ error' = [type |-> type, line |-> line]

\* ------------------------------------------------------------------------
\* The run, block by block
\* ------------------------------------------------------------------------
\* lines 55-56: an upload is read
LoadUpload ==
  /\ pc = "source"
  /\ csv_file.exists
  /\ df' = load_df(csv_file)
  /\ defined' = defined \cup {"df"}
  /\ pc' = "coerce"
  /\ UNCHANGED <<csv_file, disk, views, warning, error>>

\* lines 57-58: no upload, the file on disk is read
LoadDefault ==
  /\ pc = "source"
  /\ ~csv_file.exists
  /\ disk.exists
  /\ df' = load_df(disk)
  /\ defined' = defined \cup {"df"}
  /\ pc' = "coerce"
  /\ UNCHANGED <<csv_file, disk, views, warning, error>>

\* a run that shows the warning and goes on with an empty table
WarnAndContinue ==
  /\ pc = "source"
  /\ ~csv_file.exists
  /\ ~disk.exists
  /\ warning' = TRUE
  /\ df' = [columns |-> Canonical, rows |-> <<>>]
  /\ defined' = defined \cup {"df"}
  /\ pc' = "coerce"
  /\ UNCHANGED <<csv_file, disk, views, error>>

\* lines 59-64: neither source: st.warning, st.stop()
WarnAndStop ==
  /\ pc = "source"
  /\ ~csv_file.exists
  /\ ~disk.exists
  /\ warning' = TRUE
  /\ pc' = "stopped"
  /\ UNCHANGED <<csv_file, disk, df, views, error, defined>>

\* lines 66-68: the day column is cast to int, the tip column is filled
CoerceTypes ==
  /\ pc = "coerce"
  /\ IF ~HasColumn(df, N_day)
     THEN Raise("KeyError", 67) /\ UNCHANGED df
     ELSE IF astype_int_raises(CoerceDay(Column(df, N_day)))
     THEN Raise("IntCastingNaNError", 67) /\ UNCHANGED df
     ELSE LET df1 == SetColumn(df, N_day, CoerceDay(Column(df, N_day)))
          IN IF ~HasColumn(df1, N_tip)
             THEN Raise("KeyError", 68) /\ df' = df1
             ELSE /\ df' = SetColumn(df1, N_tip, CoerceTip(Column(df1, N_tip)))
                  /\ pc' = "timestamp"
                  /\ UNCHANGED error
  /\ UNCHANGED <<csv_file, disk, views, warning, defined>>

\* lines 72-85: hour, days_list, base_date, df["timestamp"]
DeriveTimestamp ==
  /\ pc = "timestamp"
  /\ IF ~HasColumn(df, N_tod)
     THEN Raise("KeyError", 74) /\ UNCHANGED <<df, defined>>
     ELSE LET ts == Timestamps(days_list(Column(df, N_day)), HourOf(Column(df, N_tod)))
          IN /\ df' = [df EXCEPT !.rows =
                         [i \in 1..Len(df.rows) |->
                            [f \in Fields \cup {"timestamp"} |->
                               IF f = "timestamp" THEN ts[i] ELSE df.rows[i][f]]]]
             /\ defined' = defined \cup {"hour", "days_list", "base_date"}
             /\ pc' = "kpi"
             /\ UNCHANGED error
  /\ UNCHANGED <<csv_file, disk, views, warning>>

\* KPI cards that show the total only
KpiCards_TotalOnly ==
  /\ pc = "kpi"
  /\ kpi' = [kpi EXCEPT !.total = SumSeq([i \in 1..Len(df.rows) |-> Column(df, N_tip)[i].val])]
  /\ pc' = "dep"
  /\ UNCHANGED <<csv_file, disk, df, dep_sum, daily, top_guests, recent, dep_points,
                 most_active_day, avg_tip, top_dept, warning, defined, error>>

\* lines 91-94: Total Tips, Unique Guests, Departments
KpiCards ==
  /\ pc = "kpi"
  /\ LET total == SumSeq([i \in 1..Len(df.rows) |-> Column(df, N_tip)[i].val])
     IN IF ~HasColumn(df, N_guest)
        THEN /\ Raise("KeyError", 93)
             /\ kpi' = [kpi EXCEPT !.total = total]
        ELSE LET guests == Cardinality(Range(Column(df, N_guest)) \ {NA})
             IN IF ~HasColumn(df, N_dept)
                THEN /\ Raise("KeyError", 94)
                     /\ kpi' = [kpi EXCEPT !.total = total, !.guests = guests]
                ELSE /\ kpi' = [total |-> total, guests |-> guests,
                                depts |-> Cardinality(Range(Column(df, N_dept)) \ {NA})]
                     /\ pc' = "dep"
                     /\ UNCHANGED error
  /\ UNCHANGED <<csv_file, disk, df, dep_sum, daily, top_guests, recent, dep_points,
                 most_active_day, avg_tip, top_dept, warning, defined>>

\* line 105: dep_sum
TipsByDepartment ==
  /\ pc = "dep"
  /\ IF ~HasColumn(df, N_dept)
     THEN Raise("KeyError", 105) /\ UNCHANGED <<dep_sum, defined>>
     ELSE /\ \E tie \in Ties : dep_sum' = DepSum(df, tie)
          /\ defined' = defined \cup {"dep_sum"}
          /\ pc' = "daily"
          /\ UNCHANGED error
  /\ UNCHANGED <<csv_file, disk, df, kpi, daily, top_guests, recent, dep_points,
                 most_active_day, avg_tip, top_dept, warning>>

\* line 115: daily
DailyActivity ==
  /\ pc = "daily"
  /\ daily' = Daily(df)
  /\ defined' = defined \cup {"daily"}
  /\ pc' = "guests"
  /\ UNCHANGED <<csv_file, disk, df, kpi, dep_sum, top_guests, recent, dep_points,
                 most_active_day, avg_tip, top_dept, warning, error>>

\* line 132: top_guests
TopTippers ==
  /\ pc = "guests"
  /\ IF ~HasColumn(df, N_guest)
     THEN Raise("KeyError", 132) /\ UNCHANGED <<top_guests, defined>>
     ELSE /\ \E tie \in Ties : top_guests' = TopGuests(df, tie)
          /\ defined' = defined \cup {"top_guests"}
          /\ pc' = "recent"
          /\ UNCHANGED error
  /\ UNCHANGED <<csv_file, disk, df, kpi, dep_sum, daily, recent, dep_points,
                 most_active_day, avg_tip, top_dept, warning>>

\* line 140: recent
RecentLog ==
  /\ pc = "recent"
  /\ \E tie \in Ties : recent' = Recent(df, tie)
  /\ defined' = defined \cup {"recent"}
  /\ pc' = "heat"
  /\ UNCHANGED <<csv_file, disk, df, kpi, dep_sum, daily, top_guests, dep_points,
                 most_active_day, avg_tip, top_dept, warning, error>>

\* lines 197-204: dep_points, heat_df
Heatmap ==
  /\ pc = "heat"
  /\ dep_points' = DepPoints(dep_sum)
  /\ defined' = defined \cup {"dep_points", "heat_df"}
  /\ pc' = "insights"
  /\ UNCHANGED <<csv_file, disk, df, kpi, dep_sum, daily, top_guests, recent,
                 most_active_day, avg_tip, top_dept, warning, error>>

\* lines 251-253: most_active_day, avg_tip, top_dept; idxmax of an empty
\* series raises ValueError
Insights ==
  /\ pc = "insights"
  /\ IF daily = <<>>
     THEN /\ Raise("ValueError", 251)
          /\ UNCHANGED <<most_active_day, avg_tip, top_dept, defined>>
     ELSE /\ most_active_day' = daily[idxmax(Tips(daily))].day
          /\ avg_tip' = mean([i \in 1..Len(df.rows) |-> Column(df, N_tip)[i].val])
          /\ top_dept' = IF dep_sum # <<>> THEN dep_sum[1].dept ELSE None
          /\ defined' = defined \cup {"most_active_day", "avg_tip", "top_dept"}
          /\ pc' = "done"
          /\ UNCHANGED error
  /\ UNCHANGED <<csv_file, disk, df, kpi, dep_sum, daily, top_guests, recent,
                 dep_points, warning>>

Next ==
  \/ LoadUpload
  \/ LoadDefault
  \/ WarnAndStop
  \/ CoerceTypes
  \/ DeriveTimestamp
  \/ KpiCards
  \/ TipsByDepartment
  \/ DailyActivity
  \/ TopTippers
  \/ RecentLog
  \/ Heatmap
  \/ Insights

Spec == Init /\ [][Next]_vars

\* ------------------------------------------------------------------------
\* Properties
\* ------------------------------------------------------------------------
\* the file the run reads
Input == IF csv_file.exists THEN csv_file ELSE disk

HasSource == csv_file.exists \/ disk.exists

Loaded == "df" \in defined

Ended == pc \in {"done", "stopped", "error"}

\* line 68 has been executed
TipCoerced ==
  \/ pc \in {"timestamp", "kpi", "dep", "daily", "guests", "recent", "heat", "insights", "done"}
  \/ pc = "error" /\ error.line > 68

\* the names the five columns must have for the run to use them
Names == {N_day, N_guest, N_tip, N_dept, N_tod}

\* the input cell of row i that ends up in the column called name
InputCell(i, name) == Input.rows[i][ColumnOf(df, name)]

\* the records the views are computed from
recs == Records(df)

\* the first row of a department
FirstSeen(d) == CHOOSE i \in 1..Len(recs) : recs[i].dept = d /\ \A j \in 1..(i - 1) : recs[j].dept # d

\* C1 as stated: after type coercion every input row is still there and its
\* tip is a number >= 0.
C1_TipNonNegative ==
  TipCoerced =>
    /\ Len(df.rows) = Len(Input.rows)
    /\ \A i \in 1..Len(df.rows) :
         /\ ~Column(df, N_tip)[i].nan
         /\ Column(df, N_tip)[i].val >= 0

\* C1 amended: after the tip coercion every input row is still there; a tip
\* cell that holds a number keeps that number, negative or not, and any other
\* tip cell becomes 0.
C1_TipCoercion ==
  TipCoerced =>
    /\ Len(df.rows) = Len(Input.rows)
    /\ \A i \in 1..Len(df.rows) :
         Column(df, N_tip)[i] =
           IF InputCell(i, N_tip).k = "num" THEN Val(InputCell(i, N_tip).v) ELSE Val(0)

C1_Witness ==
  /\ TipCoerced
  /\ \E i \in 1..Len(df.rows) : InputCell(i, N_tip).k = "num" /\ InputCell(i, N_tip).v < 0
  /\ \E i \in 1..Len(df.rows) : InputCell(i, N_tip).k # "num"

\* C2 as stated: the department totals add up to the sum of tip over all
\* records, rows without a department included.
C2_Conservation ==
  "dep_sum" \in defined => SumSeq(Tips(dep_sum)) = SumSeq(Tips(recs))

\* C2 amended: the department totals add up to the sum of tip over the records
\* that have a department, which is the Total Tips KPI less the tips of the
\* rows whose department cell is missing.
C2_ConservationOfPresent ==
  "dep_sum" \in defined =>
    /\ SumSeq(Tips(dep_sum)) = SumSeq(Tips(SelectSeq(recs, LAMBDA r : ~IsNA(r.dept))))
    /\ SumSeq(Tips(dep_sum)) = kpi.total - SumSeq(Tips(SelectSeq(recs, LAMBDA r : IsNA(r.dept))))

C2_Witness ==
  /\ "dep_sum" \in defined
  /\ Len(dep_sum) >= 2
  /\ Len(recs) > Len(dep_sum) + 1
  /\ \E i \in 1..Len(recs) : IsNA(recs[i].dept) /\ recs[i].tip # 0

\* C3 as stated: a row whose day cell is no number does not abort the run; the
\* row is kept with day 0.
C3_BadDayRetained ==
  (/\ Loaded
   /\ \A n \in Names : HasColumn(df, n)
   /\ \E i \in 1..Len(Input.rows) : InputCell(i, N_day).k # "num"
   /\ pc # "coerce")
  => /\ pc # "error"
     /\ Len(df.rows) = Len(Input.rows)
     /\ \A i \in 1..Len(df.rows) :
          InputCell(i, N_day).k # "num" => Column(df, N_day)[i] = Val(0)

\* C4 as stated: a bilingual header in its mojibake form is renamed to the
\* canonical field name, as the correctly encoded header is.
C4_MojibakeRepaired ==
  Loaded =>
    \A f \in Fields :
      Input.header[f] = Mojibake(Bilingual[f]) => df.columns[f] = Canonical[f]

\* C5 as stated: a file with a header row and no data rows runs to the end:
\* the three grouped views are empty, average_tip is 0, top_department is
\* absent, the peak-day computation does not raise.
C5_EmptyInputAggregates ==
  (/\ Loaded
   /\ \A n \in Names : HasColumn(df, n)
   /\ Input.rows = <<>>
   /\ Ended)
  => /\ pc = "done"
     /\ dep_sum = <<>> /\ daily = <<>> /\ top_guests = <<>>
     /\ ~avg_tip.nan /\ avg_tip.num = 0
     /\ top_dept = None

\* C6: with no upload and no fallback file the run shows the warning and
\* halts: nothing is loaded, coerced or aggregated in such a run.
C6_MissingSourceHalts ==
  /\ (~HasSource /\ pc # "source") =>
       /\ warning
       /\ pc = "stopped"
       /\ defined = {}
       /\ df = NoFrame
       /\ dep_sum = <<>> /\ daily = <<>> /\ top_guests = <<>> /\ recent = <<>>
       /\ error = NoError
  /\ warning => ~HasSource

C6_Witness == warning /\ pc = "stopped" /\ ~HasSource

\* a column is missing after the header mapping
MissingColumn == \E n \in Names : ~HasColumn(df, n)

\* C7 as stated, second half: an input that has guest, tip and dept but lacks
\* the day or the tod column is not rejected for a missing column.
C7_DayTodOptional ==
  (/\ Loaded
   /\ HasColumn(df, N_guest) /\ HasColumn(df, N_tip) /\ HasColumn(df, N_dept)
   /\ ~HasColumn(df, N_day) \/ ~HasColumn(df, N_tod))
  => ~(pc = "error" /\ error.type = "KeyError")

\* C7 amended: when any of the five columns day, guest, tip, dept, tod is
\* missing after the header mapping, the run never gets past the KPI cards: no
\* view is computed and the run does not complete; and a KeyError ends a run
\* only when a column is missing.
C7_AnyMissingColumnAborts ==
  Loaded =>
    /\ MissingColumn =>
         /\ pc \in {"coerce", "timestamp", "kpi", "error"}
         /\ defined \cap {"dep_sum", "daily", "top_guests", "recent", "top_dept"} = {}
         /\ pc = "error" => error.type \in {"KeyError", "IntCastingNaNError"}
    /\ (pc = "error" /\ error.type = "KeyError") => MissingColumn

C7_Witness ==
  /\ pc = "error" /\ error = [type |-> "KeyError", line |-> 67]
  /\ ~HasColumn(df, N_day)
  /\ HasColumn(df, N_guest) /\ HasColumn(df, N_tip) /\ HasColumn(df, N_dept) /\ HasColumn(df, N_tod)
  /\ Len(df.rows) > 0

\* C8: the recent log holds min(15, number of records) rows in non-increasing
\* timestamp order, and no row left out is more recent than the last row kept.
C8_RecentLog ==
  "recent" \in defined =>
    /\ Len(recent) = Min(RecentLimit, Len(recs))
    /\ \A j \in 1..(Len(recent) - 1) : recent[j].timestamp >= recent[j + 1].timestamp
    /\ \A j \in 1..Len(recent) :
         /\ recent[j].idx \in 1..Len(recs)
         /\ recent[j].timestamp = recs[recent[j].idx].timestamp
         /\ \A k \in 1..Len(recent) : recent[k].idx = recent[j].idx => k = j
    /\ \A i \in 1..Len(recs) :
         (\A j \in 1..Len(recent) : recent[j].idx # i)
           => recs[i].timestamp <= recent[Len(recent)].timestamp

C8_Witness ==
  /\ "recent" \in defined
  /\ Len(recs) > RecentLimit
  /\ Len(recent) = RecentLimit
  /\ recent[1].timestamp > recent[RecentLimit].timestamp
  /\ \E i \in 1..Len(recs) : recs[i].timestamp < recent[RecentLimit].timestamp

\* C9 as stated: the department view is in descending order of total, and of
\* two departments with equal totals the one seen first in the input comes
\* first.
C9_TieFirstSeen ==
  "dep_sum" \in defined =>
    \A j \in 1..Len(dep_sum) : \A k \in (j + 1)..Len(dep_sum) :
      \/ dep_sum[j].tip > dep_sum[k].tip
      \/ /\ dep_sum[j].tip = dep_sum[k].tip
         /\ FirstSeen(dep_sum[j].dept) < FirstSeen(dep_sum[k].dept)

\* the total of a department, from the records
DeptTotal(d) == SumSeq(Tips(SelectSeq(recs, LAMBDA r : r.dept = d)))

\* C9 amended: the department view is in non-increasing order of total, and
\* top_department is its first entry, a department whose total no other
\* department exceeds (None when no row has a department); the order of
\* departments with equal totals is not their order of first appearance.
C9_DescendingTotals ==
  /\ "dep_sum" \in defined =>
       /\ \A j \in 1..(Len(dep_sum) - 1) : dep_sum[j].tip >= dep_sum[j + 1].tip
       /\ \A j \in 1..Len(dep_sum) : dep_sum[j].tip = DeptTotal(dep_sum[j].dept)
  /\ "top_dept" \in defined =>
       IF \A i \in 1..Len(recs) : IsNA(recs[i].dept)
       THEN top_dept = None
       ELSE /\ top_dept = dep_sum[1].dept
            /\ \A i \in 1..Len(recs) :
                 ~IsNA(recs[i].dept) => DeptTotal(recs[i].dept) <= DeptTotal(top_dept)

C9_Witness ==
  /\ "top_dept" \in defined
  /\ Len(dep_sum) >= 2
  /\ dep_sum[1].tip = dep_sum[2].tip
  /\ FirstSeen(dep_sum[1].dept) > FirstSeen(dep_sum[2].dept)
  /\ top_dept = dep_sum[1].dept

\* C10: the daily view has one entry per distinct day of the input and no
\* other entry, each entry holds the sum of tip over that day's records, and
\* the entries are in ascending day order.
C10_DailyTotals ==
  "daily" \in defined =>
    /\ {daily[j].day : j \in 1..Len(daily)} = {InputCell(i, N_day).v : i \in 1..Len(Input.rows)}
    /\ \A j \in 1..(Len(daily) - 1) : daily[j].day < daily[j + 1].day
    /\ \A j \in 1..Len(daily) :
         daily[j].tip = SumSeq(Tips(SelectSeq(recs, LAMBDA r : r.day = daily[j].day)))

C10_Witness ==
  /\ "daily" \in defined
  /\ Len(daily) >= 2
  /\ daily[2].day > daily[1].day + 1
  /\ Len(recs) > Len(daily)
  /\ \E i \in 1..(Len(recs) - 1) : recs[i].day > recs[i + 1].day

====
